---- MODULE Spec2Model ----
(***************************************************************************)
(* Model of xcode_diagnostics.py: XcodeDiagnostics.extract_diagnostics,    *)
(* get_latest_build_log and the single-pass scan of _parse_log_file.       *)
(*                                                                         *)
(* A log line is a sequence of tokens.  A token stands for a piece of      *)
(* text: one character (":", " ", "/", "^", "~", a digit) or a word that   *)
(* holds no colon, blank, caret, tilde or newline ("error", "x", ...).     *)
(* The regular expressions of the source are evaluated on the tokens the   *)
(* way re.search evaluates them on the characters: leftmost match, greedy  *)
(* quantifiers.  Cursors i and j are 0-based as in the source; Line(ls, k) *)
(* is lines[k].  An Optional value is <<>> (None) or <<v>> (the value v).  *)
(***************************************************************************)
EXTENDS Integers, Sequences, FiniteSets, TLC

\* ------------------------------------------------------------------ bounds
\* Longest line sequence handed to the scan.
MaxLines == 4
\* Calls of extract_diagnostics in one process.
MaxCalls == 2

\* ------------------------------------------------------------- text model
None == <<>>
Some(v) == <<v>>

EOL == "EOL"
At(s, k) == IF k \in 1..Len(s) THEN s[k] ELSE EOL

Digits == {"0", "1", "2", "3", "4", "5", "6", "7", "8", "9"}
DigitVal(t) ==
  CASE t = "0" -> 0 [] t = "1" -> 1 [] t = "2" -> 2 [] t = "3" -> 3
    [] t = "4" -> 4 [] t = "5" -> 5 [] t = "6" -> 6 [] t = "7" -> 7
    [] t = "8" -> 8 [] t = "9" -> 9
DigitTok(n) ==
  CASE n = 0 -> "0" [] n = 1 -> "1" [] n = 2 -> "2" [] n = 3 -> "3"
    [] n = 4 -> "4" [] n = 5 -> "5" [] n = 6 -> "6" [] n = 7 -> "7"
    [] n = 8 -> "8" [] n = 9 -> "9"

IsSpace(t) == t = " "
IsDigit(t) == t \in Digits
NotColon(t) == t # ":"
IsCaretTilde(t) == t \in {"^", "~"}

\* int(text) of a group matched by (\d+)
RECURSIVE IntOf(_)
IntOf(ds) ==
  IF ds = <<>> THEN 0
  ELSE 10 * IntOf(SubSeq(ds, 1, Len(ds) - 1)) + DigitVal(ds[Len(ds)])

\* str(n) as it appears inside an f-string
RECURSIVE StrOf(_)
StrOf(n) ==
  IF n < 10 THEN <<DigitTok(n)>> ELSE StrOf(n \div 10) \o <<DigitTok(n % 10)>>

\* str.rstrip(), str.strip()
RStrip(s) ==
  LET keep == {k \in 1..Len(s) : ~IsSpace(s[k])}
  IN IF keep = {} THEN <<>>
     ELSE SubSeq(s, 1, CHOOSE k \in keep : \A m \in keep : m <= k)
Strip(s) ==
  LET r == RStrip(s)
  IN IF r = <<>> THEN <<>>
     ELSE SubSeq(r, CHOOSE k \in 1..Len(r) :
                       ~IsSpace(r[k]) /\ \A m \in 1..(k - 1) : IsSpace(r[m]),
                 Len(r))

\* lines[j].strip().startswith('/')
StartsWithSlash(s) == At(Strip(s), 1) = "/"

\* End (exclusive) of the longest run of tokens other than ":" that starts at
\* p: what the greedy [^:]+ takes, the pattern needing a ":" next.
PathEnd(s, p) ==
  CHOOSE q \in p..(Len(s) + 1) :
    /\ \A k \in p..(q - 1) : NotColon(s[k])
    /\ (q = Len(s) + 1 \/ ~NotColon(s[q]))

\* End (exclusive) of the longest run of digits that starts at p: what the
\* greedy \d+ takes, the pattern needing a ":" next.
NumberEnd(s, p) ==
  CHOOSE q \in p..(Len(s) + 1) :
    /\ \A k \in p..(q - 1) : IsDigit(s[k])
    /\ (q = Len(s) + 1 \/ ~IsDigit(s[q]))

\* ------------------------------------------------------ the patterns
\* ([^:]+):(\d+):(\d+): (kind): ([^\n]+)   tried at start position p
\* Result: 0 when there is no match at p, else the position of the kind.
LocColAt(s, p, kinds) ==
  LET q1 == PathEnd(s, p)
      q2 == NumberEnd(s, q1 + 1)
      q3 == NumberEnd(s, q2 + 1)
  IN IF /\ q1 > p /\ At(s, q1) = ":"
        /\ q2 > q1 + 1 /\ At(s, q2) = ":"
        /\ q3 > q2 + 1 /\ At(s, q3) = ":"
        /\ At(s, q3 + 1) = " " /\ At(s, q3 + 2) \in kinds
        /\ At(s, q3 + 3) = ":" /\ At(s, q3 + 4) = " "
        /\ Len(s) >= q3 + 5
     THEN q3 + 2 ELSE 0

\* ([^:]+):(\d+): (kind): (expected .+)   tried at start position p
LocAt(s, p, kinds) ==
  LET q1 == PathEnd(s, p)
      q2 == NumberEnd(s, q1 + 1)
  IN IF /\ q1 > p /\ At(s, q1) = ":"
        /\ q2 > q1 + 1 /\ At(s, q2) = ":"
        /\ At(s, q2 + 1) = " " /\ At(s, q2 + 2) \in kinds
        /\ At(s, q2 + 3) = ":" /\ At(s, q2 + 4) = " "
        /\ At(s, q2 + 5) = "expected" /\ At(s, q2 + 6) = " "
        /\ Len(s) >= q2 + 7
     THEN q2 + 2 ELSE 0

\* re.search: the leftmost of the start positions `ok` that give a match,
\* 0 when there is none.
FirstStart(ok) ==
  IF ok = {} THEN 0 ELSE CHOOSE p \in ok : \A r \in ok : p <= r

NoMatch == [matched |-> FALSE]

\* The groups of a match of a three-number pattern that starts at p.
GroupsCol(s, p, kinds) ==
  LET q1 == PathEnd(s, p)
      q2 == NumberEnd(s, q1 + 1)
      q3 == NumberEnd(s, q2 + 1)
  IN [matched |-> TRUE,
      file_path |-> SubSeq(s, p, q1 - 1),
      line_number |-> IntOf(SubSeq(s, q1 + 1, q2 - 1)),
      column |-> IntOf(SubSeq(s, q2 + 1, q3 - 1)),
      type |-> s[q3 + 2],
      message |-> Strip(SubSeq(s, q3 + 5, Len(s)))]

KindsDiag == {"error", "warning"}

main_pattern(s) ==
  LET p0 == FirstStart({p \in 1..Len(s) : LocColAt(s, p, KindsDiag) # 0})
  IN IF p0 = 0 THEN NoMatch ELSE GroupsCol(s, p0, KindsDiag)

note_pattern(s) ==
  LET p0 == FirstStart({p \in 1..Len(s) : LocColAt(s, p, {"note"}) # 0})
  IN IF p0 = 0 THEN NoMatch ELSE GroupsCol(s, p0, {"note"})

\* a variant of alt_pattern: the number after the path is also taken as column
alt_pattern_ColumnParsed(s) ==
  LET p0 == FirstStart({p \in 1..Len(s) : LocAt(s, p, KindsDiag) # 0})
      q1 == PathEnd(s, p0)
      q2 == NumberEnd(s, q1 + 1)
  IN IF p0 = 0 THEN NoMatch
     ELSE [matched |-> TRUE,
           file_path |-> SubSeq(s, p0, q1 - 1),
           line_number |-> IntOf(SubSeq(s, q1 + 1, q2 - 1)),
           column |-> IntOf(SubSeq(s, q1 + 1, q2 - 1)),
           type |-> s[q2 + 2],
           message |-> Strip(SubSeq(s, q2 + 5, Len(s)))]

alt_pattern(s) ==
  LET p0 == FirstStart({p \in 1..Len(s) : LocAt(s, p, KindsDiag) # 0})
      q1 == PathEnd(s, p0)
      q2 == NumberEnd(s, q1 + 1)
  IN IF p0 = 0 THEN NoMatch
     ELSE [matched |-> TRUE,
           file_path |-> SubSeq(s, p0, q1 - 1),
           line_number |-> IntOf(SubSeq(s, q1 + 1, q2 - 1)),
           column |-> 1,
           type |-> s[q2 + 2],
           message |-> Strip(SubSeq(s, q2 + 5, Len(s)))]

\* ([^:]+\.swift):(\d+):(\d+): (warning): (.+(?:concurrency-safe|global shared|Swift 6|nonisolated).+)
KwSwift == {"concurrency-safe", "global shared", "Swift 6", "nonisolated"}
\* tokens whose text holds one of concurrency|thread safety|isolation|actor
KwBackup == {"concurrency", "thread safety", "isolation", "actor", "concurrency-safe"}

\* (.+(?:kw).+) on the message that follows the kind at position t
HasKeyword(s, t, kws) == \E k \in (t + 4)..(Len(s) - 1) : s[k] \in kws

concurrency_pattern(s) ==
  LET p0 == FirstStart({p \in 1..Len(s) :
                          /\ LocColAt(s, p, {"warning"}) # 0
                          /\ PathEnd(s, p) > p + 1
                          /\ At(s, PathEnd(s, p) - 1) = ".swift"
                          /\ HasKeyword(s, LocColAt(s, p, {"warning"}), KwSwift)})
  IN IF p0 = 0 THEN NoMatch ELSE GroupsCol(s, p0, {"warning"})

backup_concurrency_pattern(s) ==
  LET p0 == FirstStart({p \in 1..Len(s) :
                          /\ LocColAt(s, p, {"warning"}) # 0
                          /\ HasKeyword(s, LocColAt(s, p, {"warning"}), KwBackup)})
  IN IF p0 = 0 THEN NoMatch ELSE GroupsCol(s, p0, {"warning"})

\* re.search(r'\s*([\^~]+)\s*', line): some caret or tilde anywhere in the line
fixit_pattern(s) == \E k \in 1..Len(s) : IsCaretTilde(s[k])

\* re.search(r'^\s+.*$', line): the line starts with white space
code_context_pattern(s) == Len(s) >= 1 /\ IsSpace(s[1])

\* The cascade of the outer scan: main, alternative, Swift concurrency, backup.
\* a variant of FirstMatched: the abbreviated form is tried before the main form
FirstMatched_AltFirst(m1, m2, m3, m4) ==
  IF m2.matched THEN m2
  ELSE IF m1.matched THEN m1
  ELSE IF m3.matched THEN m3
  ELSE m4

FirstMatched(m1, m2, m3, m4) ==
  IF m1.matched THEN m1
  ELSE IF m2.matched THEN m2
  ELSE IF m3.matched THEN m3
  ELSE m4
Classify(s) ==
  FirstMatched(main_pattern(s), alt_pattern(s), concurrency_pattern(s),
               backup_concurrency_pattern(s))

\* ------------------------------------------------- the lines of the logs
\* "/a:1:2: error: x"
LErr == <<"/", "a", ":", "1", ":", "2", ":", " ", "error", ":", " ", "x">>
\* "/b:2:1: warning: y"
LWarn == <<"/", "b", ":", "2", ":", "1", ":", " ", "warning", ":", " ", "y">>
\* "c:3: error: expected z"
LAlt == <<"c", ":", "3", ":", " ", "error", ":", " ", "expected", " ", "z">>
\* "/a:1:2: note: n"
LNote == <<"/", "a", ":", "1", ":", "2", ":", " ", "note", ":", " ", "n">>
\* " ^~"
LCaret == <<" ", "^", "~">>
\* " x "
LCode == <<" ", "x", " ">>
\* "y"
LText == <<"y">>
\* ""
LBlank == <<>>
\* " /b:2:1: error: y"
LIndentedErr == <<" ", "/", "b", ":", "2", ":", "1", ":", " ", "error", ":", " ", "y">>
\* "/b:2:1: error: ~ y"
LTildeErr == <<"/", "b", ":", "2", ":", "1", ":", " ", "error", ":", " ", "~", " ", "y">>

Vocabulary ==
  {LErr, LWarn, LAlt, LNote, LCaret, LCode, LText, LBlank, LIndentedErr, LTildeErr}

\* "/a.swift:1:2: warning: x concurrency-safe y"
LSwift ==
  <<"/", "a", ".swift", ":", "1", ":", "2", ":", " ", "warning", ":", " ",
    "x", " ", "concurrency-safe", " ", "y">>
\* "/b:2:1: warning: x actor y"
LActor ==
  <<"/", "b", ":", "2", ":", "1", ":", " ", "warning", ":", " ",
    "x", " ", "actor", " ", "y">>
\* "/a:1:2: error: expected x"
LErrExpected ==
  <<"/", "a", ":", "1", ":", "2", ":", " ", "error", ":", " ", "expected", " ", "x">>
\* "error: x"
LGeneric == <<"error", ":", " ", "x">>
\* "c:3: warning: expected z"
LAltWarn == <<"c", ":", "3", ":", " ", "warning", ":", " ", "expected", " ", "z">>

\* "/a:1:2: error:  " (the message is one space)
LBlankMessage == <<"/", "a", ":", "1", ":", "2", ":", " ", "error", ":", " ", " ">>

\* the lines that tell the forms of the cascade apart
FormLines == {LSwift, LActor, LErrExpected, LGeneric, LAltWarn, LBlankMessage}

AllLines == Vocabulary \cup FormLines

\* The result of each search on each line of the logs, computed once.
MainMatch == [l \in AllLines |-> main_pattern(l)]
NoteMatch == [l \in AllLines |-> note_pattern(l)]
PrimaryMatch == [l \in AllLines |-> Classify(l)]
FixitMatch == [l \in AllLines |-> fixit_pattern(l)]
AltMatch == [l \in AllLines |-> alt_pattern(l)]
ConcurrencyMatch == [l \in AllLines |-> concurrency_pattern(l)]
BackupMatch == [l \in AllLines |-> backup_concurrency_pattern(l)]

\* ------------------------------------------------------------ the records
DiagnosticIssue(type, message, file_path, line_number, column) ==
  [type |-> type, message |-> message, file_path |-> file_path,
   line_number |-> line_number, column |-> column,
   character_range |-> None, code |-> None, notes |-> <<>>]

\* `not diagnostic.code`: None and the empty string are both false
Falsy(opt) == opt = None \/ opt = Some(<<>>)

EmptyDict == [k \in {} |-> <<>>]
Put(d, key, v) == [k \in DOMAIN d \cup {key} |-> IF k = key THEN v ELSE d[k]]
\* f"{file_path}:{line_number}"
ContextKey(file_path, line_number) == file_path \o <<":">> \o StrOf(line_number)

Line(ls, k) == ls[k + 1]

\* ------------------------------------------------- the steps of the scan
\* A frame `st` of _parse_log_file: [pc, i, j, issues, diagnostic,
\* current_code_context, context_lines], and headers: for each issue of
\* `issues`, at the same position, the index of the line that opened it (a
\* history of the scan).

\* a variant of CapturesCode: the line after the header is never captured
CapturesCode_Never(ls, jj) == FALSE

\* the guard of the initial code capture
CapturesCode(ls, jj) ==
  /\ jj < Len(ls)
  /\ ~MainMatch[Line(ls, jj)].matched
  /\ ~StartsWithSlash(Line(ls, jj))

\* a variant of SkipLine: the cursor stays where it is
SkipLine_Stay(st) == st

\* `i += 1` of an unmatched line or of an excluded warning
SkipLine(st) == [st EXCEPT !.i = st.i + 1]

\* a variant of SkipsWarning: the flag is ignored and every match is retained
SkipsWarning_Never(m, iw) == FALSE

\* `if issue_type == 'warning' and not include_warnings`
SkipsWarning(m, iw) == m.type = "warning" /\ ~iw

\* a variant of Retained: a diagnostic is created for every match
Retained_All(m, iw) == m.matched

\* a match the outer scan turns into a diagnostic
Retained(m, iw) == m.matched /\ ~SkipsWarning(m, iw)
\* a match the outer scan steps over
Excluded(m, iw) == m.matched /\ SkipsWarning(m, iw)

\* a variant of OpenDiagnostic: the notes list is the one of the diagnostic
\* before (a list shared by the instances)
OpenDiagnostic_SharedNotes(ls, st, m) ==
  LET jj == st.i + 1
      d == [DiagnosticIssue(m.type, m.message, Some(m.file_path),
                            Some(m.line_number), Some(m.column))
              EXCEPT !.notes = st.diagnostic.notes]
      code_line == RStrip(Line(ls, jj))
  IN [st EXCEPT
        !.pc = "lookahead",
        !.j = jj,
        !.diagnostic = IF CapturesCode(ls, jj)
                       THEN [d EXCEPT !.code = Some(code_line)] ELSE d,
        !.current_code_context =
            IF CapturesCode(ls, jj)
            THEN Put(@, ContextKey(m.file_path, m.line_number), code_line)
            ELSE @,
        !.context_lines = <<>>]

OpenDiagnostic(ls, st, m) ==
  LET jj == st.i + 1
      d == DiagnosticIssue(m.type, m.message, Some(m.file_path),
                           Some(m.line_number), Some(m.column))
      code_line == RStrip(Line(ls, jj))
  IN [st EXCEPT
        !.pc = "lookahead",
        !.j = jj,
        !.diagnostic = IF CapturesCode(ls, jj)
                       THEN [d EXCEPT !.code = Some(code_line)] ELSE d,
        !.current_code_context =
            IF CapturesCode(ls, jj)
            THEN Put(@, ContextKey(m.file_path, m.line_number), code_line)
            ELSE @,
        !.context_lines = <<>>]

\* what the outer scan does with the line at i, whose match is m
OuterWith(ls, iw, st, m) ==
  IF ~m.matched THEN SkipLine(st)
  ELSE IF SkipsWarning(m, iw) THEN SkipLine(st)
  ELSE OpenDiagnostic(ls, st, m)

OuterStep(ls, iw, st) == OuterWith(ls, iw, st, PrimaryMatch[Line(ls, st.i)])

\* a variant of AppendNote: diagnostic.notes.insert(0, note)
AppendNote_Prepend(notes, note) == <<note>> \o notes

\* diagnostic.notes.append(note)
AppendNote(notes, note) == Append(notes, note)

\* a fix-it replacement may follow the indicator of a note
NoteHasIndicator(ls, jn) ==
  jn + 1 < Len(ls) /\ FixitMatch[Line(ls, jn + 1)]

\* a variant of NoteHasReplacement: the replacement is looked for after the
\* note line even when no indicator follows it
NoteHasReplacement_NoIndicator(ls, jn) ==
  /\ jn + 2 < Len(ls)
  /\ ~MainMatch[Line(ls, jn + 2)].matched
  /\ ~NoteMatch[Line(ls, jn + 2)].matched

\* a replacement line follows the indicator
NoteHasReplacement(ls, jn) ==
  /\ NoteHasIndicator(ls, jn)
  /\ jn + 2 < Len(ls)
  /\ ~MainMatch[Line(ls, jn + 2)].matched
  /\ ~NoteMatch[Line(ls, jn + 2)].matched

\* a variant of NoteBranch: the replacement keeps its leading white space
NoteBranch_NoTrim(ls, st) ==
  LET nm == NoteMatch[Line(ls, st.j)]
      context_key == ContextKey(nm.file_path, nm.line_number)
      note0 == [type |-> nm.type, message |-> nm.message,
                file_path |-> nm.file_path, line_number |-> nm.line_number,
                column |-> nm.column, suggested_fix |-> None,
                code_context |->
                  IF context_key \in DOMAIN st.current_code_context
                  THEN Some(st.current_code_context[context_key]) ELSE None]
      note1 == IF NoteHasIndicator(ls, st.j)
               THEN note0 @@ ("fixit_indicator" :> RStrip(Line(ls, st.j + 1)))
               ELSE note0
      note2 == IF NoteHasReplacement(ls, st.j)
               THEN [note1 EXCEPT !.suggested_fix = Some(RStrip(Line(ls, st.j + 2)))]
               ELSE note1
      jend == IF NoteHasReplacement(ls, st.j) THEN st.j + 2
              ELSE IF NoteHasIndicator(ls, st.j) THEN st.j + 1 ELSE st.j
  IN [st EXCEPT !.diagnostic.notes = Append(@, note2), !.j = jend + 1]

NoteBranch(ls, st) ==
  LET nm == NoteMatch[Line(ls, st.j)]
      context_key == ContextKey(nm.file_path, nm.line_number)
      note0 == [type |-> nm.type, message |-> nm.message,
                file_path |-> nm.file_path, line_number |-> nm.line_number,
                column |-> nm.column, suggested_fix |-> None,
                code_context |->
                  IF context_key \in DOMAIN st.current_code_context
                  THEN Some(st.current_code_context[context_key]) ELSE None]
      note1 == IF NoteHasIndicator(ls, st.j)
               THEN note0 @@ ("fixit_indicator" :> RStrip(Line(ls, st.j + 1)))
               ELSE note0
      note2 == IF NoteHasReplacement(ls, st.j)
               THEN [note1 EXCEPT !.suggested_fix = Some(Strip(Line(ls, st.j + 2)))]
               ELSE note1
      jend == IF NoteHasReplacement(ls, st.j) THEN st.j + 2
              ELSE IF NoteHasIndicator(ls, st.j) THEN st.j + 1 ELSE st.j
  IN [st EXCEPT !.diagnostic.notes = AppendNote(@, note2), !.j = jend + 1]

\* the guard of the retroactive code capture of the fix-it branch
RetroCode(ls, st) ==
  /\ Falsy(st.diagnostic.code)
  /\ st.j > 0
  /\ ~MainMatch[Line(ls, st.j - 1)].matched
  /\ ~NoteMatch[Line(ls, st.j - 1)].matched

FixHasSuggestion(ls, jf) ==
  /\ jf + 1 < Len(ls)
  /\ ~MainMatch[Line(ls, jf + 1)].matched
  /\ ~NoteMatch[Line(ls, jf + 1)].matched
  /\ ~FixitMatch[Line(ls, jf + 1)]

\* a variant of ImplicitNote: the column of the diagnostic is not copied
ImplicitNote_NoColumn(d, caret_line, fix_suggestion) ==
  [type |-> "implicit_fix", message |-> <<"Fix", " ", "suggestion">>,
   file_path |-> d.file_path[1], line_number |-> d.line_number[1],
   column |-> 1,
   suggested_fix |-> Some(fix_suggestion),
   fixit_indicator |-> caret_line]

\* the implicit note of a fix suggestion: file_path, line_number and column
\* are those the diagnostic was created with
ImplicitNote(d, caret_line, fix_suggestion) ==
  [type |-> "implicit_fix", message |-> <<"Fix", " ", "suggestion">>,
   file_path |-> d.file_path[1], line_number |-> d.line_number[1],
   column |-> d.column[1],
   suggested_fix |-> Some(fix_suggestion),
   fixit_indicator |-> caret_line]

\* a variant of FixitBranch: character_range is not stored
FixitBranch_NoRange(ls, st) ==
  LET caret_line == RStrip(Line(ls, st.j))
      d == st.diagnostic
      d1 == IF RetroCode(ls, st)
            THEN [d EXCEPT !.code = Some(RStrip(Line(ls, st.j - 1)))] ELSE d
      d2 == d1
      implicit_note ==
        [type |-> "implicit_fix", message |-> <<"Fix", " ", "suggestion">>,
         file_path |-> d.file_path[1], line_number |-> d.line_number[1],
         column |-> d.column[1],
         suggested_fix |-> Some(Strip(Line(ls, st.j + 1))),
         fixit_indicator |-> caret_line]
  IN IF FixHasSuggestion(ls, st.j)
     THEN [st EXCEPT !.diagnostic = [d2 EXCEPT !.notes = Append(@, implicit_note)],
                     !.j = st.j + 2]
     ELSE [st EXCEPT !.diagnostic = d2, !.j = st.j + 1]

FixitBranch(ls, st) ==
  LET caret_line == RStrip(Line(ls, st.j))
      d == st.diagnostic
      d1 == IF RetroCode(ls, st)
            THEN [d EXCEPT !.code = Some(RStrip(Line(ls, st.j - 1)))] ELSE d
      d2 == [d1 EXCEPT !.character_range = Some(caret_line)]
      implicit_note == ImplicitNote(d, caret_line, Strip(Line(ls, st.j + 1)))
  IN IF FixHasSuggestion(ls, st.j)
     THEN [st EXCEPT !.diagnostic = [d2 EXCEPT !.notes = AppendNote(@, implicit_note)],
                     !.j = st.j + 2]
     ELSE [st EXCEPT !.diagnostic = d2, !.j = st.j + 1]

CodeBranch(ls, st) ==
  LET text == RStrip(Line(ls, st.j))
  IN [st EXCEPT
        !.context_lines = Append(@, text),
        !.diagnostic.code = IF Falsy(@) THEN Some(text) ELSE @,
        !.j = st.j + 1]

\* a variant of CloseDiagnostic: issues.insert(0, diagnostic)
CloseDiagnostic_Prepend(st) ==
  [st EXCEPT !.issues = <<st.diagnostic>> \o @,
             !.headers = <<st.i>> \o @,
             !.i = st.j, !.pc = "outer"]

\* issues.append(diagnostic); i = j
CloseDiagnostic(st) ==
  [st EXCEPT !.issues = Append(@, st.diagnostic),
             !.headers = Append(@, st.i),
             !.i = st.j, !.pc = "outer"]

\* which branch of the lookahead loop takes the line at j
IsNoteLine(ls, st) == st.j < Len(ls) /\ NoteMatch[Line(ls, st.j)].matched
IsFixitLine(ls, st) ==
  st.j < Len(ls) /\ ~IsNoteLine(ls, st) /\ FixitMatch[Line(ls, st.j)]
\* a variant of IsCodeLine: no line is a code-context line
IsCodeLine_Never(ls, st) == FALSE

IsCodeLine(ls, st) ==
  /\ st.j < Len(ls) /\ ~IsNoteLine(ls, st)
  /\ code_context_pattern(Line(ls, st.j)) /\ ~FixitMatch[Line(ls, st.j)]

LookaheadStep(ls, st) ==
  IF IsNoteLine(ls, st) THEN NoteBranch(ls, st)
  ELSE IF IsFixitLine(ls, st) THEN FixitBranch(ls, st)
  ELSE IF IsCodeLine(ls, st) THEN CodeBranch(ls, st)
  ELSE CloseDiagnostic(st)

\* the local `diagnostic` before the first diagnostic is created
NoDiagnostic == DiagnosticIssue("", <<>>, None, None, None)

\* lines = output.split('\n'); i = 0; current_code_context = {}
ScanStart ==
  [pc |-> "outer", i |-> 0, j |-> 0, issues |-> <<>>,
   diagnostic |-> NoDiagnostic, current_code_context |-> EmptyDict,
   context_lines |-> <<>>, headers |-> <<>>]

\* one step of `while i < len(lines)` with its inner `while j < len(lines)`
ScanStep(ls, iw, st) ==
  IF st.pc = "lookahead" THEN LookaheadStep(ls, st)
  ELSE IF st.i < Len(ls) THEN OuterStep(ls, iw, st)
  ELSE [st EXCEPT !.pc = "parsed"]

RECURSIVE RunScan(_, _, _)
RunScan(ls, iw, st) ==
  IF st.pc = "parsed" THEN st ELSE RunScan(ls, iw, ScanStep(ls, iw, st))

\* the list _parse_log_file returns for the text `ls`, run on its own
ParseLines(ls, iw) == RunScan(ls, iw, ScanStart).issues

\* output.split('\n') never returns an empty list
Inputs == UNION {[1..n -> Vocabulary] : n \in 1..MaxLines}

\* str(e) of the exception raised while the text is obtained
Failures == {<<"exit", " ", "status", " ", "1">>, <<"Permission", " ", "denied">>}

\* ----------------------------------------------------- the file system
\* Files a build log directory may hold.
MaxFiles == 3
LogNames == {"log1.xcactivitylog", "log2.xcactivitylog"}
OtherNames == {"notes.txt"}
MTimes == {1, 2, 3}
\* the build log directory: whether it exists, and its files in the order
\* the directory lists them
FileSystems ==
  {[exists |-> FALSE, files |-> <<>>]} \cup
  {[exists |-> TRUE, files |-> f] :
     f \in {g \in UNION {[1..n -> [name : LogNames \cup OtherNames, mtime : MTimes]] :
                           n \in 0..MaxFiles} :
              \A a, b \in 1..Len(g) : a # b => g[a].name # g[b].name}}

\* glob.glob(f"{build_logs_dir}/*.xcactivitylog")
glob(fs) == SelectSeq(fs.files, LAMBDA f : f.name \in LogNames)

\* a variant of get_latest_build_log: the sort is ascending
get_latest_build_log_Oldest(fs) ==
  IF ~fs.exists THEN None
  ELSE IF glob(fs) = <<>> THEN None
  ELSE LET k == CHOOSE a \in 1..Len(glob(fs)) :
                  /\ \A b \in 1..Len(glob(fs)) : glob(fs)[a].mtime <= glob(fs)[b].mtime
                  /\ \A b \in 1..(a - 1) : glob(fs)[a].mtime < glob(fs)[b].mtime
       IN Some(glob(fs)[k].name)

\* log_files.sort(key=os.path.getmtime, reverse=True); return log_files[0]
\* (the sort is stable: of the newest files, the first in glob order)
get_latest_build_log(fs) ==
  IF ~fs.exists THEN None
  ELSE IF glob(fs) = <<>> THEN None
  ELSE LET k == CHOOSE a \in 1..Len(glob(fs)) :
                  /\ \A b \in 1..Len(glob(fs)) : glob(fs)[b].mtime <= glob(fs)[a].mtime
                  /\ \A b \in 1..(a - 1) : glob(fs)[b].mtime < glob(fs)[a].mtime
       IN Some(glob(fs)[k].name)

\* The file systems of the calls whose subject is the scan: no directory, an
\* empty directory, and a directory with two logs.
Systems ==
  {[exists |-> FALSE, files |-> <<>>],
   [exists |-> TRUE, files |-> <<>>],
   [exists |-> TRUE,
    files |-> <<[name |-> "log1.xcactivitylog", mtime |-> 1],
                [name |-> "log2.xcactivitylog", mtime |-> 2]>>]}

\* ------------------------------------------------------ the legacy server
\* A JSON value that is not an object with members of interest: its type and
\* its text.
JStr(text) == [t |-> "string", v |-> text]
JList == [t |-> "array", v |-> "[\"x\"]"]

\* `not value`
Truthy(val) ==
  ~(\/ val.t = "null"
    \/ val.t = "string" /\ val.v = ""
    \/ val.t = "number" /\ val.v = "0"
    \/ val.t = "array" /\ val.v = "[]")
\* a list cannot be the key looked up in a dict: `value in dict` raises TypeError
Hashable(val) == val.t # "array"

\* self.methods
methods ==
  {"initialize", "shutdown", "mcp.list_tools", "mcp.call_tool", "tools/list",
   "tools/call", "prompts/list"}
\* self.tool_functions
tool_functions == {"get_xcode_projects", "get_project_diagnostics"}

\* The values of "parameters" and "arguments": [1], {} and
\* {"project_dir_name": "P"}.
ArgList == [t |-> "array", project_dir_name |-> None]
ArgEmpty == [t |-> "object", project_dir_name |-> None]
ArgProject == [t |-> "object", project_dir_name |-> Some("P")]
\* `not tool_params`
TruthyArgs(a) == a.t = "array" \/ a.project_dir_name # None

\* The values of "params": null, [1], and objects with the members name,
\* parameters and arguments, each present or not.
ParamsNull == [t |-> "null", name |-> None, parameters |-> None, arguments |-> None]
ParamsList == [t |-> "array", name |-> None, parameters |-> None, arguments |-> None]
ParamsEmpty == [t |-> "object", name |-> None, parameters |-> None, arguments |-> None]
ToolNames == {JStr(n) : n \in tool_functions \cup {"nope"}} \cup {JList}
CallParams ==
  [t : {"object"},
   name : {None} \cup {Some(n) : n \in ToolNames},
   parameters : {None, Some(ArgList), Some(ArgEmpty), Some(ArgProject)},
   arguments : {None, Some(ArgProject)}]

\* The requests: JSON objects with the members id, method and params, each
\* present or not.
MethodValues ==
  {JStr(m) : m \in methods \cup {"", "nope"}} \cup
  {[t |-> "null", v |-> "null"], [t |-> "number", v |-> "0"],
   [t |-> "number", v |-> "5"], [t |-> "array", v |-> "[]"], JList}
CallMethods == {JStr("tools/call"), JStr("mcp.call_tool")}
Requests ==
  [t : {"object"}, id : {None, Some("1")},
   method : {None} \cup {Some(m) : m \in MethodValues},
   params : {None, Some(ParamsNull), Some(ParamsList), Some(ParamsEmpty)}]
  \cup
  [t : {"object"}, id : {None, Some("1")}, method : {Some(m) : m \in CallMethods},
   params : {Some(q) : q \in CallParams}]
\* JSON texts that are not objects: [1], 5, "s", null
NonObjects ==
  [t : {"array", "number", "string", "null"}, id : {None}, method : {None},
   params : {None}]

\* The lines of the standard input after line.strip(): empty, not JSON, JSON.
BlankLine == [kind |-> "blank", value |-> [t |-> "null", id |-> None, method |-> None, params |-> None]]
InvalidLine == [kind |-> "invalid", value |-> [t |-> "null", id |-> None, method |-> None, params |-> None]]
ServerLines ==
  {BlankLine, InvalidLine} \cup
  {[kind |-> "json", value |-> r] : r \in Requests \cup NonObjects}

\* What a handler or a tool hands back: a value, or an exception.
Returned(v) == [raised |-> FALSE, value |-> v]
Raised == [raised |-> TRUE, value |-> [kind |-> "none", code |-> 0]]

\* McpServer.initialize: params.get raises unless params is a dict
initialize(params) ==
  IF params.t # "object" THEN Raised
  ELSE Returned([kind |-> "serverInfo", code |-> 0])
shutdown(params) == Returned([kind |-> "empty", code |-> 0])
list_tools(params) == Returned([kind |-> "tools", code |-> 0])
list_prompts(params) == Returned([kind |-> "prompts", code |-> 0])

\* whether self.tool_functions[tool_name](tool_params) raises:
\* _get_xcode_projects ignores its params; _get_project_diagnostics calls
\* params.get and os.path.join with project_dir_name
ToolRaises(tool_name, tool_params) ==
  /\ tool_name = "get_project_diagnostics"
  /\ tool_params.t # "object" \/ tool_params.project_dir_name = None

\* McpServer.call_tool: its return value, an "error" dict included, is the
\* handler's result
call_tool(params) ==
  IF params.t # "object" THEN Raised
  ELSE LET first == IF params.parameters = None THEN ArgEmpty
                    ELSE params.parameters[1]
           tool_params == IF ~TruthyArgs(first) /\ params.arguments # None
                          THEN params.arguments[1] ELSE first
       IN IF params.name # None /\ ~Hashable(params.name[1]) THEN Raised
          ELSE IF params.name = None \/ params.name[1].v \notin tool_functions
          THEN Returned([kind |-> "error", code |-> -32601])
          ELSE IF ToolRaises(params.name[1].v, tool_params)
          THEN Returned([kind |-> "error", code |-> -32000])
          ELSE Returned([kind |-> "content", code |-> 0])

\* self.methods[method](params)
Dispatch(method, params) ==
  IF method = "initialize" THEN initialize(params)
  ELSE IF method = "shutdown" THEN shutdown(params)
  ELSE IF method \in {"mcp.list_tools", "tools/list"} THEN list_tools(params)
  ELSE IF method \in {"mcp.call_tool", "tools/call"} THEN call_tool(params)
  ELSE list_prompts(params)

\* A response: result and error are None when the member is absent.
ErrorResponse(request_id, code) ==
  [jsonrpc |-> "2.0", id |-> request_id, result |-> None, error |-> Some(code)]
ResultResponse(request_id, value) ==
  [jsonrpc |-> "2.0", id |-> request_id, result |-> Some(value), error |-> None]

\* McpServer.handle_request on a request object
handle_request(request) ==
  LET params == IF request.params = None THEN ParamsEmpty ELSE request.params[1]
  IN IF request.method = None \/ ~Truthy(request.method[1])
     THEN Returned(ErrorResponse(request.id, -32600))
     ELSE IF ~Hashable(request.method[1]) THEN Raised
     ELSE IF request.method[1].t = "string" /\ request.method[1].v \in methods
     THEN IF Dispatch(request.method[1].v, params).raised
          THEN Returned(ErrorResponse(request.id, -32000))
          ELSE Returned(ResultResponse(request.id,
                                       Dispatch(request.method[1].v, params).value))
     ELSE Returned(ErrorResponse(request.id, -32601))

\* McpServer.process_line: json.loads, then handle_request; request.get
\* raises AttributeError when the JSON text is not an object
process_line(line) ==
  IF line.kind = "invalid" THEN Returned(ErrorResponse(None, -32700))
  ELSE IF line.value.t # "object" THEN Raised
  ELSE handle_request(line.value)

\* one pass of `for line in sys.stdin` of McpServer.run
RunLine(sv, line) ==
  IF line.kind = "blank"
  THEN [sv EXCEPT !.input = Append(@, line), !.answers = Append(@, None)]
  ELSE IF process_line(line).raised
  THEN [sv EXCEPT !.input = Append(@, line), !.answers = Append(@, None),
                  !.pc = "exited"]
  ELSE [sv EXCEPT !.input = Append(@, line),
                  !.answers = Append(@, Some(process_line(line).value)),
                  !.output = Append(@, process_line(line).value)]

\* ------------------------------------------------------------- the state
VARIABLES
  frame,                 \* the position of the call and the locals of _parse_log_file
  include_warnings,      \* the flag of the call
  log_file,              \* what get_latest_build_log returned
  lines,                 \* the text of the log, split into lines
  result,                \* the dictionary extract_diagnostics returns
  calls,                 \* history: the calls of extract_diagnostics so far
  parser_called,         \* history: _parse_log_file was entered in this call
  failure,               \* history: the failure of the extraction, if it failed
  consumed,              \* history: <<k, h>>, line k was passed by the lookahead of header h
  skipped,               \* history: the line indices the outer scan stepped over
  code_from,             \* history: <<k, h>>, line k was stored as the code of header h
  leftover,              \* history: the map an earlier scan left behind, as this scan found it
  note_from,             \* history: <<k, h, n>>, line k made the n-th note of header h
  file_system,           \* the build log directory as the call found it
  other,                 \* a second invocation of _parse_log_file: its locals and arguments
  debug_log,             \* the text in /tmp/xcode-diagnostic-raw.log
  server                 \* McpServer.run: where it is, the lines read (history),
                         \* the answer to each (history), the lines printed

vars == <<frame, include_warnings, log_file, lines, result, calls,
          parser_called, failure, consumed, skipped, code_from, leftover,
          note_from, file_system, other, debug_log, server>>

\* where the call of extract_diagnostics stands
pc == frame.pc
\* the two cursors of the scan
i == frame.i
j == frame.j
\* the list _parse_log_file builds and returns
issues == frame.issues
\* the diagnostic whose lookahead is in progress
diagnostic == frame.diagnostic
\* the map from "file_path:line_number" to a code line
current_code_context == frame.current_code_context
\* history: the line index of the header of each issue
headers == frame.headers

NoResult == [pending |-> TRUE]

Init ==
  /\ frame = [ScanStart EXCEPT !.pc = "idle"]
  /\ include_warnings = TRUE /\ log_file = None /\ lines = <<>>
  /\ result = NoResult
  /\ calls = 0 /\ parser_called = FALSE /\ failure = None
  /\ consumed = {} /\ skipped = {} /\ code_from = {}
  /\ leftover = EmptyDict /\ note_from = {}
  /\ file_system = [exists |-> FALSE, files |-> <<>>]
  /\ other = [frame |-> [ScanStart EXCEPT !.pc = "idle"], lines |-> <<>>,
              include_warnings |-> TRUE]
  /\ debug_log = <<>>
  /\ server = [pc |-> "reading", input |-> <<>>, answers |-> <<>>, output |-> <<>>]

\* The frame of a call: every local is unbound.  The cell of
\* current_code_context is kept, so that the map of a later scan is fresh
\* because of the assignment `current_code_context = {}` and not by assumption.
NewFrame(at) ==
  /\ frame' = [ScanStart EXCEPT !.pc = at,
                                !.current_code_context = frame.current_code_context]
  /\ lines' = <<>>
  /\ parser_called' = FALSE /\ failure' = None
  /\ consumed' = {} /\ skipped' = {} /\ code_from' = {}
  /\ leftover' = EmptyDict /\ note_from' = {}

\* extract_diagnostics when get_latest_build_log finds nothing
NotFoundResult ==
  [success |-> FALSE, message |-> <<"No build logs found for project">>,
   errors |-> <<>>, warnings |-> <<>>]

CallNotFound(systems) ==
  /\ pc = "idle"
  /\ \E iw \in BOOLEAN, fs \in systems :
       /\ get_latest_build_log(fs) = None
       /\ include_warnings' = iw
       /\ file_system' = fs
       /\ log_file' = get_latest_build_log(fs)
  /\ UNCHANGED <<other, debug_log, server>>
  /\ result' = NotFoundResult
  /\ calls' = calls + 1
  /\ NewFrame("returned")

\* extract_diagnostics when a log is found: _parse_log_file is entered
CallFound(systems) ==
  /\ pc = "idle"
  /\ \E iw \in BOOLEAN, fs \in systems :
       /\ get_latest_build_log(fs) # None
       /\ include_warnings' = iw
       /\ file_system' = fs
       /\ log_file' = get_latest_build_log(fs)
  /\ UNCHANGED <<other, debug_log, server>>
  /\ result' = NoResult
  /\ calls' = calls + 1
  /\ NewFrame("extract")

\* a variant of SyntheticIssue: the failure is reported as a warning
SyntheticIssue_Warning(path, e) ==
  DiagnosticIssue("warning", <<"Error parsing log file: ">> \o e, path, None, None)

\* the handler of `except Exception as e`
SyntheticIssue(path, e) ==
  DiagnosticIssue("error", <<"Error parsing log file: ">> \o e, path, None, None)

\* subprocess.check_output (or the write of the raw text) raises
ExtractFails ==
  /\ pc = "extract"
  /\ \E e \in Failures :
       /\ frame' = [frame EXCEPT !.pc = "parsed",
                                 !.issues = Append(@, SyntheticIssue(log_file, e))]
       /\ failure' = Some(e)
  /\ parser_called' = TRUE
  /\ UNCHANGED <<include_warnings, log_file, lines, result, calls,
                 consumed, skipped, code_from,
                 leftover, note_from,
                 file_system, other, debug_log,
                 server>>

\* a variant of ExtractOK: current_code_context is not assigned, the scan
\* goes on with the map it finds
ExtractOK_Stale(texts) ==
  /\ pc = "extract"
  /\ \E ls \in texts : lines' = ls
  /\ debug_log' = lines'
  /\ frame' = [ScanStart EXCEPT
                 !.current_code_context = frame.current_code_context]
  /\ leftover' = frame.current_code_context
  /\ parser_called' = TRUE
  /\ UNCHANGED <<include_warnings, log_file, result, calls, failure, consumed,
                 skipped, code_from, note_from,
                 file_system, other,
                 server>>

\* the text is obtained and split into lines; `texts` are the texts the
\* extraction may deliver
ExtractOK(texts) ==
  /\ pc = "extract"
  /\ \E ls \in texts : lines' = ls
  /\ debug_log' = lines'
  /\ frame' = ScanStart
  /\ leftover' = frame.current_code_context
  /\ parser_called' = TRUE
  /\ UNCHANGED <<include_warnings, log_file, result, calls, failure, consumed,
                 skipped, code_from, note_from,
                 file_system, other,
                 server>>

\* the outer scan at a line no pattern of the cascade matches
OuterSkip ==
  /\ pc = "outer" /\ i < Len(lines)
  /\ ~PrimaryMatch[Line(lines, i)].matched
  /\ frame' = SkipLine(frame)
  /\ skipped' = skipped \cup {i}
  /\ UNCHANGED <<include_warnings, log_file, lines, result, calls,
                 parser_called, failure, consumed, code_from,
                 leftover, note_from,
                 file_system, other, debug_log,
                 server>>

\* the outer scan at a warning while warnings are excluded
OuterSkipWarning ==
  /\ pc = "outer" /\ i < Len(lines)
  /\ Excluded(PrimaryMatch[Line(lines, i)], include_warnings)
  /\ frame' = SkipLine(frame)
  /\ skipped' = skipped \cup {i}
  /\ UNCHANGED <<include_warnings, log_file, lines, result, calls,
                 parser_called, failure, consumed, code_from,
                 leftover, note_from,
                 file_system, other, debug_log,
                 server>>

\* the outer scan at the header of a retained diagnostic
OuterOpen ==
  /\ pc = "outer" /\ i < Len(lines)
  /\ Retained(PrimaryMatch[Line(lines, i)], include_warnings)
  /\ frame' = OpenDiagnostic(lines, frame, PrimaryMatch[Line(lines, i)])
  /\ code_from' = IF CapturesCode(lines, i + 1)
                  THEN code_from \cup {<<i + 1, i>>} ELSE code_from
  /\ UNCHANGED <<include_warnings, log_file, lines, result, calls,
                 parser_called, failure, consumed, skipped,
                 leftover, note_from,
                 file_system, other, debug_log,
                 server>>

\* the lookahead at a note line (with its indicator and replacement)
LookNote ==
  /\ pc = "lookahead" /\ IsNoteLine(lines, frame)
  /\ frame' = NoteBranch(lines, frame)
  /\ consumed' = consumed \cup {<<k, i>> : k \in j..(frame'.j - 1)}
  /\ note_from' = note_from \cup {<<j, i, Len(diagnostic.notes) + 1>>}
  /\ UNCHANGED <<include_warnings, log_file, lines, result, calls,
                 parser_called, failure, skipped, code_from,
                 leftover,
                 file_system, other, debug_log,
                 server>>

\* the lookahead at a line that holds a caret or a tilde
LookFixit ==
  /\ pc = "lookahead" /\ IsFixitLine(lines, frame)
  /\ frame' = FixitBranch(lines, frame)
  /\ consumed' = consumed \cup {<<k, i>> : k \in j..(frame'.j - 1)}
  /\ code_from' = IF RetroCode(lines, frame)
                  THEN code_from \cup {<<j - 1, i>>} ELSE code_from
  /\ note_from' = IF FixHasSuggestion(lines, j)
                  THEN note_from \cup {<<j, i, Len(diagnostic.notes) + 1>>}
                  ELSE note_from
  /\ UNCHANGED <<include_warnings, log_file, lines, result, calls,
                 parser_called, failure, skipped,
                 leftover,
                 file_system, other, debug_log,
                 server>>

\* the lookahead at an indented line
LookCode ==
  /\ pc = "lookahead" /\ IsCodeLine(lines, frame)
  /\ frame' = CodeBranch(lines, frame)
  /\ consumed' = consumed \cup {<<j, i>>}
  /\ code_from' = IF Falsy(diagnostic.code)
                  THEN code_from \cup {<<j, i>>} ELSE code_from
  /\ UNCHANGED <<include_warnings, log_file, lines, result, calls,
                 parser_called, failure, skipped,
                 leftover, note_from,
                 file_system, other, debug_log,
                 server>>

\* the lookahead ends: the diagnostic is appended and the outer scan resumes
LookClose ==
  /\ pc = "lookahead"
  /\ ~IsNoteLine(lines, frame) /\ ~IsFixitLine(lines, frame)
  /\ ~IsCodeLine(lines, frame)
  /\ frame' = CloseDiagnostic(frame)
  /\ UNCHANGED <<include_warnings, log_file, lines, result, calls,
                 parser_called, failure, consumed, skipped, code_from,
                 leftover, note_from,
                 file_system, other, debug_log,
                 server>>

\* `while i < len(lines)` is left and _parse_log_file returns issues
ScanEnd ==
  /\ pc = "outer" /\ i >= Len(lines)
  /\ frame' = [frame EXCEPT !.pc = "parsed"]
  /\ UNCHANGED <<include_warnings, log_file, lines, result, calls,
                 parser_called, failure, consumed, skipped, code_from,
                 leftover, note_from,
                 file_system, other, debug_log,
                 server>>

\* a variant of processed_errors: every issue is listed as an error
processed_errors_All(is) == is

\* the two lists extract_diagnostics builds from the issues
processed_errors(is) == SelectSeq(is, LAMBDA d : d.type = "error")
processed_warnings(is, iw) == SelectSeq(is, LAMBDA d : d.type = "warning" /\ iw)

\* a variant of FoundResult: success tells whether an issue was found
FoundResult_NonEmpty(path, is, iw) ==
  [success |-> is # <<>>, log_file |-> path,
   errors |-> processed_errors(is),
   warnings |-> processed_warnings(is, iw),
   error_count |-> Len(processed_errors(is)),
   warning_count |-> Len(processed_warnings(is, iw))]

FoundResult(path, is, iw) ==
  [success |-> TRUE, log_file |-> path,
   errors |-> processed_errors(is),
   warnings |-> processed_warnings(is, iw),
   error_count |-> Len(processed_errors(is)),
   warning_count |-> Len(processed_warnings(is, iw))]

\* extract_diagnostics returns the dictionary built from the issues
Assemble ==
  /\ pc = "parsed"
  /\ result' = FoundResult(log_file[1], issues, include_warnings)
  /\ frame' = [frame EXCEPT !.pc = "returned"]
  /\ UNCHANGED <<include_warnings, log_file, lines, calls, parser_called,
                 failure, consumed, skipped, code_from,
                 leftover, note_from,
                 file_system, other, debug_log,
                 server>>

\* the host is ready to call extract_diagnostics again in the same process
Recall ==
  /\ pc = "returned"
  /\ calls < MaxCalls
  /\ frame' = [frame EXCEPT !.pc = "idle"]
  /\ result' = NoResult
  /\ UNCHANGED <<include_warnings, log_file, lines, calls, parser_called,
                 failure, consumed, skipped, code_from,
                 leftover, note_from,
                 file_system, other, debug_log,
                 server>>

Next ==
  \/ CallNotFound(Systems)
  \/ CallFound(Systems)
  \/ ExtractFails
  \/ ExtractOK(Inputs)
  \/ OuterSkip
  \/ OuterSkipWarning
  \/ OuterOpen
  \/ LookNote
  \/ LookFixit
  \/ LookCode
  \/ LookClose
  \/ ScanEnd
  \/ Assemble

\* one call of extract_diagnostics
Spec == Init /\ [][Next]_vars

\* One call that is not suspended: extract_diagnostics is sequential code, a
\* step that can be taken is taken.  The texts are made of the lines that
\* reach every branch of the two loops.
FairInputs ==
  UNION {[1..n -> {LErr, LWarn, LAlt, LNote, LCaret, LCode, LText}] :
           n \in 1..MaxLines}

NextFair ==
  \/ CallNotFound(Systems)
  \/ CallFound(Systems)
  \/ ExtractFails
  \/ ExtractOK(FairInputs)
  \/ OuterSkip
  \/ OuterSkipWarning
  \/ OuterOpen
  \/ LookNote
  \/ LookFixit
  \/ LookCode
  \/ LookClose
  \/ ScanEnd
  \/ Assemble

SpecFair == Init /\ [][NextFair]_vars /\ WF_vars(NextFair)

\* One call on texts made of the lines that tell the forms of the cascade
\* apart.
MaxFormLines == 3
FormInputs ==
  (UNION {[1..n -> {LErr, LWarn, LAlt, LAltWarn, LSwift, LActor, LErrExpected,
                    LGeneric, LBlankMessage}] : n \in 1..MaxFormLines})
    \cup {<<LErr, LNote>>, <<LErr, LCaret, LCode>>, <<LErr, LCode>>}

NextForms ==
  \/ CallNotFound(Systems)
  \/ CallFound(Systems)
  \/ ExtractFails
  \/ ExtractOK(FormInputs)
  \/ OuterSkip
  \/ OuterSkipWarning
  \/ OuterOpen
  \/ LookNote
  \/ LookFixit
  \/ LookCode
  \/ LookClose
  \/ ScanEnd
  \/ Assemble

SpecForms == Init /\ [][NextForms]_vars

\* Any number of calls in one process, on shorter texts.
MaxRepeatLines == 2
RepeatInputs == UNION {[1..n -> Vocabulary] : n \in 1..MaxRepeatLines}

NextRepeat ==
  \/ CallNotFound(Systems)
  \/ CallFound(Systems)
  \/ ExtractFails
  \/ ExtractOK(RepeatInputs)
  \/ OuterSkip
  \/ OuterSkipWarning
  \/ OuterOpen
  \/ LookNote
  \/ LookFixit
  \/ LookCode
  \/ LookClose
  \/ ScanEnd
  \/ Assemble
  \/ Recall

SpecRepeat == Init /\ [][NextRepeat]_vars

\* The scan with every file system of FileSystems, over a few texts.
LocateInputs == {<<LWarn, LErr, LNote>>, <<LErr, LCaret, LCode, LText>>, <<LErr, LCode>>}

NextLocate ==
  \/ CallNotFound(FileSystems)
  \/ CallFound(FileSystems)
  \/ ExtractFails
  \/ ExtractOK(LocateInputs)
  \/ OuterSkip
  \/ OuterSkipWarning
  \/ OuterOpen
  \/ LookNote
  \/ LookFixit
  \/ LookCode
  \/ LookClose
  \/ ScanEnd
  \/ Assemble

SpecLocate == Init /\ [][NextLocate]_vars

\* Two invocations of _parse_log_file whose steps interleave.
MaxPairLines == 2
PairInputs == UNION {[1..n -> {LErr, LWarn, LNote, LCode, LCaret}] : n \in 1..MaxPairLines}

\* a variant of OwnFrame: current_code_context is one map for all invocations
OwnFrame_SharedMap(mine, theirs) ==
  [mine EXCEPT !.current_code_context = theirs.current_code_context]

\* the names a step of an invocation reads: issues, lines, i and
\* current_code_context are locals of the call
OwnFrame(mine, theirs) == mine

\* the second invocation starts: its output is written to the debug file and
\* split into lines
OtherStart ==
  /\ other.frame.pc = "idle"
  /\ \E ls \in PairInputs, iw \in BOOLEAN :
       other' = [frame |-> ScanStart, lines |-> ls, include_warnings |-> iw]
  /\ debug_log' = other'.lines
  /\ UNCHANGED <<frame, include_warnings, log_file, lines, result, calls,
                 parser_called, failure, consumed, skipped, code_from,
                 leftover, note_from, file_system,
                 server>>

\* one step of the second invocation's loop
OtherStep ==
  /\ other.frame.pc \in {"outer", "lookahead"}
  /\ other' = [other EXCEPT !.frame = ScanStep(other.lines, other.include_warnings,
                                               OwnFrame(other.frame, frame))]
  /\ UNCHANGED <<frame, include_warnings, log_file, lines, result, calls,
                 parser_called, failure, consumed, skipped, code_from,
                 leftover, note_from, file_system, debug_log,
                 server>>

NextPair ==
  \/ CallNotFound(Systems)
  \/ CallFound(Systems)
  \/ ExtractFails
  \/ ExtractOK(PairInputs)
  \/ OuterSkip
  \/ OuterSkipWarning
  \/ OuterOpen
  \/ LookNote
  \/ LookFixit
  \/ LookCode
  \/ LookClose
  \/ ScanEnd
  \/ Assemble
  \/ OtherStart
  \/ OtherStep

SpecPair == Init /\ [][NextPair]_vars

\* The run loop of the legacy server.
MaxServerLines == 2

\* McpServer.run reads a line and answers it
ServerRead ==
  /\ server.pc = "reading" /\ Len(server.input) < MaxServerLines
  /\ \E line \in ServerLines : server' = RunLine(server, line)
  /\ UNCHANGED <<frame, include_warnings, log_file, lines, result, calls,
                 parser_called, failure, consumed, skipped, code_from,
                 leftover, note_from, file_system, other, debug_log>>

\* the standard input ends and McpServer.run returns
ServerEnd ==
  /\ server.pc = "reading"
  /\ server' = [server EXCEPT !.pc = "stopped"]
  /\ UNCHANGED <<frame, include_warnings, log_file, lines, result, calls,
                 parser_called, failure, consumed, skipped, code_from,
                 leftover, note_from, file_system, other, debug_log>>

NextServer ==
  \/ ServerRead
  \/ ServerEnd

SpecServer == Init /\ [][NextServer]_vars



\* ------------------------------------------------------------ the claims
\* the scan of a text is over and _parse_log_file returns its issues
ParsedText == pc = "parsed" /\ failure = None
\* a text is being scanned, or its scan is over
Scanning == failure = None /\ pc \in {"outer", "lookahead", "parsed"}

\* C1: the issues returned with include_warnings = false are, in the same
\* order and with the same field values (notes included), the issues of type
\* 'error' returned for the same lines with include_warnings = true.
C1_WarningFilter ==
  ParsedText =>
    LET included == IF include_warnings THEN issues ELSE ParseLines(lines, TRUE)
        excluded == IF include_warnings THEN ParseLines(lines, FALSE) ELSE issues
    IN excluded = SelectSeq(included, LAMBDA d : d.type = "error")

\* C2: with include_warnings = true, every line that matches the main form is
\* the header of exactly one issue, and that issue carries the type, file
\* path, line number, column and trimmed message of the line.
C2_Completeness ==
  (ParsedText /\ include_warnings) =>
    \A k \in 0..(Len(lines) - 1) :
      MainMatch[Line(lines, k)].matched =>
        LET m == MainMatch[Line(lines, k)]
            at == {n \in 1..Len(issues) : headers[n] = k}
        IN /\ Cardinality(at) = 1
           /\ \A n \in at :
                /\ issues[n].type = m.type
                /\ issues[n].file_path = Some(m.file_path)
                /\ issues[n].line_number = Some(m.line_number)
                /\ issues[n].column = Some(m.column)
                /\ issues[n].message = m.message

\* C3: the lines passed so far are split into headers of diagnostics, lines
\* consumed by one lookahead and lines skipped by the outer scan; the three
\* classes are disjoint and their sizes sum to the position of the cursor (the
\* number of lines at the end), the outer scan resumes where the lookahead
\* stopped, and no line is attributed to two diagnostics, be it as header, as
\* consumed line or as the source of the code field.
C3_NoDoubleConsumption ==
  Scanning =>
    LET cursor == IF pc = "lookahead" THEN j ELSE i
        H == {headers[n] : n \in 1..Len(headers)} \cup
             (IF pc = "lookahead" THEN {i} ELSE {})
        C == {p[1] : p \in consumed}
        Users(k) == {h \in H : h = k} \cup
                    {p[2] : p \in {q \in consumed \cup code_from : q[1] = k}}
    IN /\ H \cup C \cup skipped = 0..(cursor - 1)
       /\ H \cap C = {} /\ H \cap skipped = {} /\ C \cap skipped = {}
       /\ Cardinality(H) + Cardinality(C) + Cardinality(skipped) = cursor
       /\ pc = "parsed" => cursor = Len(lines)
       /\ \A k \in 0..(Len(lines) - 1) : Cardinality(Users(k)) <= 1

\* C4: the header line indices of consecutive issues strictly increase, every
\* issue stands at the position of its header, and the errors list of
\* extract_diagnostics lists the issues of type 'error' in that same order.
C4_OrderPreservation ==
  /\ Scanning =>
       /\ Len(headers) = Len(issues)
       /\ \A n \in 1..(Len(headers) - 1) : headers[n] < headers[n + 1]
       /\ \A n \in 1..Len(headers) :
            /\ PrimaryMatch[Line(lines, headers[n])].matched
            /\ issues[n].message = PrimaryMatch[Line(lines, headers[n])].message
            /\ issues[n].type = PrimaryMatch[Line(lines, headers[n])].type
  /\ (pc = "returned" /\ result.success) =>
       LET idx == {n \in 1..Len(issues) : issues[n].type = "error"}
           nth(k) == CHOOSE n \in idx : Cardinality({m \in idx : m < n}) = k - 1
       IN /\ Len(result.errors) = Cardinality(idx)
          /\ \A k \in 1..Len(result.errors) : result.errors[k] = issues[nth(k)]

\* C4 witness: an error, a warning and an error were returned in this order
C4_Witness ==
  /\ pc = "returned" /\ result.success /\ Len(issues) = 3
  /\ issues[1].type = "error" /\ issues[2].type = "warning"
  /\ issues[3].type = "error" /\ Len(result.errors) = 2
  /\ issues[1] # issues[3]

\* C5: with include_warnings = false no issue of type 'warning' is returned,
\* and the result has warning_count = 0 and an empty warnings list.
C5_NoWarningsWhenExcluded ==
  /\ (pc \in {"parsed", "returned"} /\ ~include_warnings) =>
       \A n \in 1..Len(issues) : issues[n].type # "warning"
  /\ (pc = "returned" /\ result.success /\ ~include_warnings) =>
       result.warning_count = 0 /\ result.warnings = <<>>

\* C5 witness: a text with a warning header was scanned with warnings
\* excluded, and an issue was returned
C5_Witness ==
  /\ pc = "returned" /\ result.success /\ ~include_warnings /\ failure = None
  /\ \E k \in skipped : PrimaryMatch[Line(lines, k)].matched
  /\ Len(issues) >= 1

\* C6: when the extraction raises, _parse_log_file returns (the call goes on
\* to its return) a list of exactly one issue, of type 'error', whose message
\* is "Error parsing log file: " followed by the failure description and whose
\* file_path is the path of the log; extract_diagnostics then reports
\* success = true and error_count = 1, whatever include_warnings is.
C6_ExtractionFailure ==
  (failure # None /\ pc # "idle") =>
    /\ pc \in {"parsed", "returned"}
    /\ Len(issues) = 1
    /\ issues[1].type = "error"
    /\ issues[1].message = <<"Error parsing log file: ">> \o failure[1]
    /\ issues[1].file_path = log_file
    /\ pc = "returned" =>
         /\ result.success
         /\ result.error_count = 1
         /\ result.errors = <<issues[1]>>

\* C6 witness: a call with warnings excluded whose extraction failed returned
C6_Witness ==
  /\ pc = "returned" /\ failure # None /\ ~include_warnings
  /\ result.success /\ result.error_count = 1

\* C7: a returned result has success = false exactly when no log was found;
\* then it carries a message and empty errors and warnings lists and
\* _parse_log_file was not entered; when a log was found the parser was
\* entered and success is true, whatever the number of issues.
C7_SuccessIffLogFound ==
  pc = "returned" =>
    /\ (result.success = FALSE) <=> (log_file = None)
    /\ log_file = None =>
         /\ result.message # <<>>
         /\ result.errors = <<>> /\ result.warnings = <<>>
         /\ ~parser_called
    /\ log_file # None => parser_called /\ result.success

\* C7 witness: a call for which no log was found returned
C7_Witness ==
  /\ pc = "returned" /\ log_file = None /\ ~result.success
  /\ ~parser_called /\ calls = 1

\* C8: when a log is found, error_count is the number of issues of type
\* 'error' the parser returned, warning_count the number of issues of type
\* 'warning', each count is the length of its list, and the two counts sum
\* to the number of issues returned; one main-form error and one main-form
\* warning give 1 and 1, and 1 and 0 with warnings excluded.
C8_Counts ==
  (pc = "returned" /\ log_file # None) =>
    /\ result.error_count =
         Cardinality({k \in 1..Len(issues) : issues[k].type = "error"})
    /\ result.warning_count =
         Cardinality({k \in 1..Len(issues) : issues[k].type = "warning"})
    /\ result.error_count = Len(result.errors)
    /\ result.warning_count = Len(result.warnings)
    /\ result.error_count + result.warning_count = Len(issues)
    /\ (failure = None /\ lines = <<LErr, LWarn>>) =>
         /\ result.error_count = 1
         /\ result.warning_count = IF include_warnings THEN 1 ELSE 0
         /\ ~include_warnings => result.warnings = <<>>

\* C8 witness: the error and the warning were scanned with warnings included
C8_Witness ==
  /\ pc = "returned" /\ failure = None /\ lines = <<LErr, LWarn>>
  /\ include_warnings
  /\ result.error_count = 1 /\ result.warning_count = 1

\* C9: however many calls came before in the process, the issues a scan
\* returns are those of a scan of the same lines with the same flag run on its
\* own, the result is built from them alone, and every key of the
\* code-context map comes from a header of the lines being scanned.
C9_Idempotence ==
  /\ ParsedText => issues = ParseLines(lines, include_warnings)
  /\ (pc = "returned" /\ log_file # None /\ failure = None) =>
       result = FoundResult(log_file[1], ParseLines(lines, include_warnings),
                            include_warnings)
  /\ Scanning =>
       \A key \in DOMAIN current_code_context :
         \E k \in 0..(Len(lines) - 1) :
           /\ PrimaryMatch[Line(lines, k)].matched
           /\ key = ContextKey(PrimaryMatch[Line(lines, k)].file_path,
                               PrimaryMatch[Line(lines, k)].line_number)

\* C9 witness: the second call found the map of the first call, which holds
\* the key of a note of the second text, and that note has no code context
C9_Witness ==
  /\ ParsedText /\ calls = 2 /\ leftover # EmptyDict
  /\ \E n \in 1..Len(issues) : \E m \in 1..Len(issues[n].notes) :
       /\ ContextKey(issues[n].notes[m].file_path,
                     issues[n].notes[m].line_number) \in DOMAIN leftover
       /\ issues[n].notes[m].code_context = None

\* C10: the cursors stay within the lines (i <= len(lines), and during a
\* lookahead i < j <= len(lines)); a step of the outer loop that stays in the
\* outer loop adds one to i, opening a diagnostic sets j to i + 1, a step of
\* the lookahead that stays in it increases j and keeps i, closing the
\* lookahead moves i forward to j, and the scan is left only with
\* i = len(lines); every scan that has started ends.
C10_Termination ==
  /\ [](Scanning =>
          /\ 0 <= i /\ i <= Len(lines)
          /\ pc = "lookahead" => (i < j /\ j <= Len(lines))
          /\ pc = "parsed" => i = Len(lines))
  /\ [][(failure' = None /\ pc \in {"outer", "lookahead"}) =>
          /\ (pc = "outer" /\ pc' = "outer") => i' = i + 1
          /\ (pc = "outer" /\ pc' = "lookahead") => (i' = i /\ j' = i + 1)
          /\ (pc = "lookahead" /\ pc' = "lookahead") => (j' > j /\ i' = i)
          /\ (pc = "lookahead" /\ pc' = "outer") => (i' = j /\ i' > i)
          /\ (pc = "outer" /\ pc' = "parsed") => (i' = i /\ i = Len(lines))
          /\ pc' \in {"outer", "lookahead", "parsed"}]_vars
  /\ (pc \in {"outer", "lookahead"}) ~> (pc = "parsed" /\ i = Len(lines))

\* C10 witness: the scan of a header, a note, its indicator and its
\* replacement is over, the lookahead having moved j by three lines at once
C10_Witness ==
  /\ ParsedText /\ lines = <<LErr, LNote, LCaret, LText>>
  /\ i = Len(lines) /\ j = Len(lines)
  /\ Len(issues) = 1 /\ Len(issues[1].notes) = 1
  /\ issues[1].notes[1].suggested_fix # None

\* C11: no line index is the header of two issues, and every issue carries
\* the type, path, line number, column and message extracted by the first of
\* the main, abbreviated, Swift-file concurrency and generic concurrency forms
\* that matches its header line.
C11_FirstFormWins ==
  Scanning =>
    /\ \A k \in 0..(Len(lines) - 1) :
         Cardinality({n \in 1..Len(issues) : headers[n] = k}) <= 1
    /\ \A n \in 1..Len(issues) :
         LET l == Line(lines, headers[n])
             m == IF MainMatch[l].matched THEN MainMatch[l]
                  ELSE IF AltMatch[l].matched THEN AltMatch[l]
                  ELSE IF ConcurrencyMatch[l].matched THEN ConcurrencyMatch[l]
                  ELSE BackupMatch[l]
         IN /\ m.matched
            /\ issues[n].type = m.type
            /\ issues[n].file_path = Some(m.file_path)
            /\ issues[n].line_number = Some(m.line_number)
            /\ issues[n].column = Some(m.column)
            /\ issues[n].message = m.message

\* C11 witness: a line that the main and the abbreviated form both match, with
\* different groups, became an issue with the groups of the main form, next to
\* an issue of the abbreviated form
C11_Witness ==
  /\ ParsedText /\ Len(issues) = 2
  /\ Line(lines, headers[1]) = LErrExpected
  /\ AltMatch[LErrExpected].matched
  /\ AltMatch[LErrExpected].file_path # MainMatch[LErrExpected].file_path
  /\ issues[1].file_path = Some(<<"/", "a">>) /\ issues[1].column = Some(2)
  /\ Line(lines, headers[2]) = LAltWarn /\ issues[2].column = Some(1)

\* C12: no line of a scanned text matches more than one of the main form, the
\* abbreviated form, the Swift-file concurrency form and the generic
\* concurrency form.
C12_MutuallyExclusive ==
  Scanning =>
    \A k \in 0..(Len(lines) - 1) :
      LET l == Line(lines, k)
          matches == <<MainMatch[l].matched, AltMatch[l].matched,
                       ConcurrencyMatch[l].matched, BackupMatch[l].matched>>
      IN Cardinality({f \in 1..4 : matches[f]}) <= 1

\* C13: when the header of an issue is followed at once by a note line, a line
\* made only of carets and tildes after its leading blanks, and a line that
\* matches neither the main nor the note form, then the first note of the
\* issue is of type 'note' with the groups of the note line, its
\* fixit_indicator is the indicator line, its suggested_fix is the stripped
\* text of the third line, it is the only note made of the three lines, and the
\* lookahead of that issue passed all three lines.
C13_NoteWithFix ==
  ParsedText =>
    \A n \in 1..Len(issues) :
      LET k == headers[n]
          IndicatorOnly(l) ==
            /\ \E p \in 1..Len(l) : IsCaretTilde(l[p])
            /\ \A p \in 1..Len(l) :
                 \/ IsCaretTilde(l[p])
                 \/ IsSpace(l[p]) /\ \A q \in 1..p : IsSpace(l[q])
      IN (/\ k + 3 < Len(lines)
          /\ NoteMatch[Line(lines, k + 1)].matched
          /\ IndicatorOnly(Line(lines, k + 2))
          /\ ~MainMatch[Line(lines, k + 3)].matched
          /\ ~NoteMatch[Line(lines, k + 3)].matched)
         =>
         /\ Len(issues[n].notes) >= 1
         /\ issues[n].notes[1].type = "note"
         /\ issues[n].notes[1].message = NoteMatch[Line(lines, k + 1)].message
         /\ issues[n].notes[1].fixit_indicator = Line(lines, k + 2)
         /\ issues[n].notes[1].suggested_fix = Some(Strip(Line(lines, k + 3)))
         /\ {t \in note_from : t[1] \in (k + 1)..(k + 3)} = {<<k + 1, k, 1>>}
         /\ {<<k + 1, k>>, <<k + 2, k>>, <<k + 3, k>>} \subseteq consumed

\* C13 witness: a warning, a note, an indicator and an indented replacement
\* were scanned; the note carries the replacement without its blanks
C13_Witness ==
  /\ ParsedText /\ lines = <<LWarn, LNote, LCaret, LCode>>
  /\ Len(issues) = 1 /\ Len(issues[1].notes) = 1
  /\ issues[1].notes[1].suggested_fix = Some(<<"x">>)
  /\ issues[1].notes[1].fixit_indicator = LCaret

\* C14: when the lookahead stands at a line made only of carets and tildes
\* after its leading blanks and the next line matches none of the main, note
\* and fix-it patterns, its step sets character_range to the indicator line,
\* appends exactly one note, of type 'implicit_fix', whose suggested_fix is the
\* stripped next line and whose fixit_indicator is the indicator line, and
\* moves j past both lines.
C14_ImplicitFix ==
  [][(/\ pc = "lookahead" /\ failure = None /\ frame' # frame
      /\ j + 1 < Len(lines)
      /\ \E p \in 1..Len(Line(lines, j)) : IsCaretTilde(Line(lines, j)[p])
      /\ \A p \in 1..Len(Line(lines, j)) :
           \/ IsCaretTilde(Line(lines, j)[p])
           \/ \A q \in 1..p : IsSpace(Line(lines, j)[q])
      /\ ~MainMatch[Line(lines, j + 1)].matched
      /\ ~NoteMatch[Line(lines, j + 1)].matched
      /\ ~FixitMatch[Line(lines, j + 1)])
     =>
     /\ diagnostic'.character_range = Some(Line(lines, j))
     /\ Len(diagnostic'.notes) = Len(diagnostic.notes) + 1
     /\ SubSeq(diagnostic'.notes, 1, Len(diagnostic.notes)) = diagnostic.notes
     /\ diagnostic'.notes[Len(diagnostic'.notes)].type = "implicit_fix"
     /\ diagnostic'.notes[Len(diagnostic'.notes)].suggested_fix =
          Some(Strip(Line(lines, j + 1)))
     /\ diagnostic'.notes[Len(diagnostic'.notes)].fixit_indicator = Line(lines, j)
     /\ j' = j + 2 /\ i' = i /\ pc' = "lookahead"]_vars

\* C14 witness: an error, its code line, an indicator and a replacement were
\* scanned; the issue has the indicator as character_range and the implicit
\* fix as its only note
C14_Witness ==
  /\ ParsedText /\ lines = <<LErr, LCode, LCaret, LText>>
  /\ Len(issues) = 1 /\ issues[1].character_range = Some(LCaret)
  /\ Len(issues[1].notes) = 1
  /\ issues[1].notes[1].type = "implicit_fix"
  /\ issues[1].notes[1].suggested_fix = Some(<<"y">>)
  /\ issues[1].notes[1].fixit_indicator = LCaret

\* C15: every issue whose header line is classified by the abbreviated form
\* (the main form does not match it) has column 1 and, as line_number, the
\* number written between the path and the kind of the line.
C15_AbbreviatedForm ==
  Scanning =>
    \A n \in 1..Len(issues) :
      LET l == Line(lines, headers[n])
          \* the first "expected", which follows "<path>:<line>: <kind>: "
          e == CHOOSE p \in 1..Len(l) :
                 l[p] = "expected" /\ \A q \in 1..(p - 1) : l[q] # "expected"
          \* the digits that end right before ": <kind>: expected"
          first == CHOOSE p \in 1..(e - 6) :
                     /\ \A q \in p..(e - 6) : IsDigit(l[q])
                     /\ (p = 1 \/ ~IsDigit(l[p - 1]))
      IN (~MainMatch[l].matched /\ AltMatch[l].matched) =>
           /\ issues[n].column = Some(1)
           /\ issues[n].line_number = Some(IntOf(SubSeq(l, first, e - 6)))
           /\ IntOf(SubSeq(l, first, e - 6)) = 3

\* C15 witness: an abbreviated-form error and an abbreviated-form warning
\* became issues at line 3, column 1
C15_Witness ==
  /\ ParsedText /\ Len(issues) = 2
  /\ Line(lines, headers[1]) = LAlt /\ Line(lines, headers[2]) = LAltWarn
  /\ issues[1].column = Some(1) /\ issues[1].line_number = Some(3)
  /\ issues[2].column = Some(1) /\ issues[2].line_number = Some(3)
  /\ issues[2].type = "warning"

\* C16: every line of the form "error: <message>", with no path, line or
\* column before it, is the header of an issue of type 'error' whose message
\* holds the text of the line, and error_count is at least the number of such
\* lines of the text.
C16_GenericError ==
  /\ ParsedText =>
       \A k \in 0..(Len(lines) - 1) :
         Line(lines, k) = LGeneric =>
           \E n \in 1..Len(issues) :
             /\ headers[n] = k
             /\ issues[n].type = "error"
             /\ \E p \in 1..Len(issues[n].message) : issues[n].message[p] = "x"
  /\ (pc = "returned" /\ log_file # None /\ failure = None) =>
       result.error_count >=
         Cardinality({k \in 0..(Len(lines) - 1) : Line(lines, k) = LGeneric})
\* C17: during one scan, a value recorded in the code-context map under a key
\* stays under that key, unchanged, for the rest of the scan.
C17_WriteOnce ==
  [][(Scanning /\ pc \in {"outer", "lookahead"}) =>
       \A key \in DOMAIN current_code_context :
         /\ key \in DOMAIN current_code_context'
         /\ current_code_context'[key] = current_code_context[key]]_vars

\* C18: every note made so far is in the notes list of the issue whose
\* lookahead made it, at the position it was appended at, made from the line
\* that the lookahead stood at; every list holds only the notes made during the
\* lookahead of its own issue, so the notes of all issues together are as many
\* as the notes made.
C18_NoteOwnership ==
  Scanning =>
    LET notes_of(h) ==
          IF pc = "lookahead" /\ h = i THEN diagnostic.notes
          ELSE issues[CHOOSE n \in 1..Len(issues) : headers[n] = h].notes
        open == IF pc = "lookahead" THEN {i} ELSE {}
        H == {headers[n] : n \in 1..Len(issues)} \cup open
        total[S \in SUBSET H] ==
          IF S = {} THEN 0
          ELSE LET h == CHOOSE x \in S : TRUE
               IN Len(notes_of(h)) + total[S \ {h}]
    IN /\ \A t \in note_from :
            /\ t[2] \in H
            /\ t[3] \in 1..Len(notes_of(t[2]))
            /\ IF NoteMatch[Line(lines, t[1])].matched
               THEN /\ notes_of(t[2])[t[3]].type = "note"
                    /\ notes_of(t[2])[t[3]].message =
                         NoteMatch[Line(lines, t[1])].message
               ELSE /\ notes_of(t[2])[t[3]].type = "implicit_fix"
                    /\ notes_of(t[2])[t[3]].fixit_indicator =
                         RStrip(Line(lines, t[1]))
       /\ \A h \in H :
            Len(notes_of(h)) = Cardinality({t \in note_from : t[2] = h})
       /\ total[H] = Cardinality(note_from)

\* C18 witness: two issues were returned, each with one note made from a note
\* line of the same text; the two notes are equal in every field and each is in
\* the list of its own issue only
C18_Witness ==
  /\ ParsedText /\ lines = <<LErr, LNote, LErr, LNote>>
  /\ Len(issues) = 2
  /\ Len(issues[1].notes) = 1 /\ Len(issues[2].notes) = 1
  /\ issues[1].notes[1] = issues[2].notes[1]
  /\ note_from = {<<1, 0, 1>>, <<3, 2, 1>>}

\* C19: when two invocations of the parser on their own line sequences
\* interleave step by step, every step of one is the step that invocation
\* takes when run alone and leaves the other's cursor, pending diagnostic,
\* issue list and code-context map as they were, and each returns the issues
\* it returns when run alone.
C19_Independent ==
  [][/\ other'.frame # other.frame /\ other.frame.pc # "idle" =>
          /\ other'.frame = ScanStep(other.lines, other.include_warnings, other.frame)
          /\ frame' = frame /\ lines' = lines
     /\ frame' # frame /\ pc \in {"outer", "lookahead"} =>
          /\ frame' = ScanStep(lines, include_warnings, frame)
          /\ other' = other
     /\ other'.frame.pc = "parsed" =>
          other'.frame.issues = ParseLines(other'.lines, other'.include_warnings)
     /\ ParsedText' => issues' = ParseLines(lines', include_warnings')]_vars

\* C19 witness: the first invocation is in the middle of its scan and has
\* recorded the code under /a:1; the second, on another text, has finished
\* with a note at /a:1 that carries no code context
C19_Witness ==
  /\ pc = "lookahead" /\ lines = <<LErr, LCode>>
  /\ ContextKey(MainMatch[LErr].file_path, MainMatch[LErr].line_number)
       \in DOMAIN current_code_context
  /\ other.frame.pc = "parsed" /\ other.lines = <<LErr, LNote>>
  /\ Len(other.frame.issues) = 1
  /\ Len(other.frame.issues[1].notes) = 1
  /\ other.frame.issues[1].notes[1].code_context = None
  /\ debug_log = other.lines

\* C20: after the call, the log file is None exactly when the directory does
\* not exist or holds no .xcactivitylog file; otherwise it is an
\* .xcactivitylog file of the directory and no .xcactivitylog file of the
\* directory has a greater modification time.
C20_LatestLog ==
  pc # "idle" =>
    LET logs == {file_system.files[k] : k \in {n \in 1..Len(file_system.files) :
                                                  file_system.files[n].name \in LogNames}}
    IN /\ log_file = None <=> (~file_system.exists \/ logs = {})
       /\ log_file # None =>
            \E f \in logs : /\ log_file = Some(f.name)
                            /\ \A g \in logs : g.mtime <= f.mtime

\* C20 witness: the directory lists the older log first, then the newer one,
\* then a file that is not a log and is newer than both; the newer log was
\* returned
C20_Witness ==
  /\ pc = "returned"
  /\ file_system = [exists |-> TRUE,
                    files |-> <<[name |-> "log1.xcactivitylog", mtime |-> 1],
                                [name |-> "log2.xcactivitylog", mtime |-> 2],
                                [name |-> "notes.txt", mtime |-> 3]>>]
  /\ log_file = Some("log2.xcactivitylog")

\* C21: a step of the lookahead that appends a note with a suggested fix took
\* the replacement from a line that matches no primary form (main or
\* abbreviated) and is not a note line.
C21_ReplacementNotDiagnostic ==
  [][(/\ Scanning /\ pc = "lookahead" /\ pc' = "lookahead"
      /\ Len(diagnostic'.notes) = Len(diagnostic.notes) + 1
      /\ diagnostic'.notes[Len(diagnostic'.notes)].suggested_fix # None) =>
       /\ ~PrimaryMatch[Line(lines, j' - 1)].matched
       /\ ~NoteMatch[Line(lines, j' - 1)].matched]_vars

\* C22: every character_range of a diagnostic and every fixit_indicator of a
\* note was taken from a line that, white space apart, consists solely of
\* caret and tilde characters.
C22_IndicatorShape ==
  Scanning =>
    LET solely(s) == /\ \E k \in 1..Len(s) : IsCaretTilde(s[k])
                     /\ \A k \in 1..Len(s) : IsSpace(s[k]) \/ IsCaretTilde(s[k])
        ds == {issues[n] : n \in 1..Len(issues)} \cup
              (IF pc = "lookahead" THEN {diagnostic} ELSE {})
    IN \A d \in ds :
         /\ d.character_range # None => solely(d.character_range[1])
         /\ \A n \in 1..Len(d.notes) :
              "fixit_indicator" \in DOMAIN d.notes[n] =>
                solely(d.notes[n].fixit_indicator)

\* C23: a step of the lookahead that takes the line at j as a code-context
\* line finds that line indented, without caret or tilde, and matching neither
\* a primary form nor the note form.
C23_CodeContextLine ==
  [][(/\ Scanning /\ pc = "lookahead" /\ pc' = "lookahead"
      /\ Len(frame'.context_lines) = Len(frame.context_lines) + 1) =>
       /\ code_context_pattern(Line(lines, j))
       /\ ~FixitMatch[Line(lines, j)]
       /\ ~PrimaryMatch[Line(lines, j)].matched
       /\ ~NoteMatch[Line(lines, j)].matched]_vars

\* C24: the step that opens a retained diagnostic at line i sets its code from
\* line i+1 and records it in the code-context map under file_path:line_number
\* exactly when line i+1 exists, matches no primary form and not the note
\* form, is not blank and does not start with a slash; otherwise the code is
\* unset and the map is as it was.
C24_InitialCodeCapture ==
  [][(Scanning /\ pc = "outer" /\ pc' = "lookahead") =>
       LET m == PrimaryMatch[Line(lines, i)]
           captured ==
             /\ i + 1 < Len(lines)
             /\ ~PrimaryMatch[Line(lines, i + 1)].matched
             /\ ~NoteMatch[Line(lines, i + 1)].matched
             /\ Strip(Line(lines, i + 1)) # <<>>
             /\ ~StartsWithSlash(Line(lines, i + 1))
       IN IF captured
          THEN /\ diagnostic'.code = Some(RStrip(Line(lines, i + 1)))
               /\ current_code_context' =
                    Put(current_code_context,
                        ContextKey(m.file_path, m.line_number),
                        RStrip(Line(lines, i + 1)))
          ELSE /\ diagnostic'.code = None
               /\ current_code_context' = current_code_context]_vars

\* C25: a step of the lookahead that sets the diagnostic's code other than by
\* the code-context branch finds the code unset and takes it from the line
\* before j, which matches no primary form (so is no diagnostic header, the
\* diagnostic's own included) and is not a note line.
C25_RetroactiveCode ==
  [][(/\ Scanning /\ pc = "lookahead" /\ pc' = "lookahead"
      /\ diagnostic'.code # diagnostic.code
      /\ frame'.context_lines = frame.context_lines) =>
       /\ Falsy(diagnostic.code)
       /\ j > 0
       /\ diagnostic'.code = Some(RStrip(Line(lines, j - 1)))
       /\ ~PrimaryMatch[Line(lines, j - 1)].matched
       /\ ~NoteMatch[Line(lines, j - 1)].matched]_vars

C27_NonCreatingStep ==
  [][(/\ Scanning /\ pc = "outer" /\ i < Len(lines)
      /\ \/ ~PrimaryMatch[Line(lines, i)].matched
         \/ /\ PrimaryMatch[Line(lines, i)].type = "warning"
            /\ ~include_warnings) =>
       /\ i' = i + 1
       /\ pc' = "outer"
       /\ issues' = issues
       /\ current_code_context' = current_code_context]_vars

\* C27 witness: after a diagnostic with recorded code, the outer scan stepped
\* over a plain line and over an excluded warning
C27_Witness ==
  /\ Scanning /\ pc = "outer" /\ ~include_warnings
  /\ lines = <<LErr, LText, LWarn>>
  /\ i = 3 /\ skipped = {1, 2}
  /\ Len(issues) = 1
  /\ DOMAIN current_code_context # {}

\* C28: the notes of an issue are in the order of the lines that made them:
\* the n-th note of an issue is the one made from the n-th of those lines (a
\* note line, or the indicator line of an implicit fix), these lines are after
\* the header of the issue and before the header of every later issue.
C28_NotesInInputOrder ==
  Scanning =>
    LET open == IF pc = "lookahead" THEN {i} ELSE {}
        H == {headers[n] : n \in 1..Len(issues)} \cup open
        notes_of(h) ==
          IF h \in open THEN diagnostic.notes
          ELSE issues[CHOOSE n \in 1..Len(issues) : headers[n] = h].notes
    IN /\ \A t \in note_from :
            /\ t[2] \in H /\ t[3] \in 1..Len(notes_of(t[2]))
            /\ notes_of(t[2])[t[3]].type =
                 (IF NoteMatch[Line(lines, t[1])].matched
                  THEN "note" ELSE "implicit_fix")
            /\ t[2] < t[1]
            /\ \A h \in H : t[2] < h => t[1] < h
       /\ \A t, u \in note_from :
            (t[2] = u[2] /\ t[3] < u[3]) => t[1] < u[1]
       /\ \A h \in H : \A n \in 1..Len(notes_of(h)) :
            \E t \in note_from : t[2] = h /\ t[3] = n

\* C28 witness: one issue has an implicit fix made from the indicator of line
\* 1 and, after it, a note made from the note line of line 3
C28_Witness ==
  /\ ParsedText /\ lines = <<LErr, LCaret, LText, LNote>>
  /\ Len(issues) = 1 /\ Len(issues[1].notes) = 2
  /\ issues[1].notes[1].type = "implicit_fix"
  /\ issues[1].notes[2].type = "note"
  /\ note_from = {<<1, 0, 1>>, <<3, 0, 2>>}

\* C29: every note of every issue has type "note" or "implicit_fix"; an
\* implicit fix has the message "Fix suggestion" and the file path, line
\* number and column of the issue that holds it; a note has the file path,
\* line number and column matched in the note line it was made from.
C29_NoteFields ==
  Scanning =>
    LET open == IF pc = "lookahead" THEN {i} ELSE {}
        H == {headers[n] : n \in 1..Len(issues)} \cup open
        issue_of(h) ==
          IF h \in open THEN diagnostic
          ELSE issues[CHOOSE n \in 1..Len(issues) : headers[n] = h]
    IN \A h \in H : \A n \in 1..Len(issue_of(h).notes) :
         LET d == issue_of(h)
             note == d.notes[n]
         IN /\ note.type \in {"note", "implicit_fix"}
            /\ note.type = "implicit_fix" =>
                 /\ note.message = <<"Fix", " ", "suggestion">>
                 /\ d.file_path = Some(note.file_path)
                 /\ d.line_number = Some(note.line_number)
                 /\ d.column = Some(note.column)
            /\ note.type = "note" =>
                 \E t \in note_from :
                   /\ t[2] = h /\ t[3] = n
                   /\ NoteMatch[Line(lines, t[1])].matched
                   /\ note.file_path = NoteMatch[Line(lines, t[1])].file_path
                   /\ note.line_number = NoteMatch[Line(lines, t[1])].line_number
                   /\ note.column = NoteMatch[Line(lines, t[1])].column

\* C29 witness: the issue of /b:2:1 holds an implicit fix with its own
\* coordinates and a note with the coordinates /a:1:2 of the note line
C29_Witness ==
  /\ ParsedText /\ lines = <<LWarn, LCaret, LText, LNote>>
  /\ Len(issues) = 1 /\ Len(issues[1].notes) = 2
  /\ issues[1].column = Some(1)
  /\ issues[1].notes[1].type = "implicit_fix" /\ issues[1].notes[1].column = 1
  /\ issues[1].notes[2].type = "note" /\ issues[1].notes[2].column = 2

\* C30: a note made from a note line has a code context exactly when, up to
\* the header of its issue, the scan opened a diagnostic of the note's file
\* path and line number and recorded the line after its header in the
\* code-context map; the code context is then the line recorded by the last
\* such diagnostic, the value in the map when the note line was processed.
C30_NoteCodeContext ==
  Scanning =>
    LET open == IF pc = "lookahead" THEN {i} ELSE {}
        H == {headers[n] : n \in 1..Len(issues)} \cup open
        notes_of(h) ==
          IF h \in open THEN diagnostic.notes
          ELSE issues[CHOOSE n \in 1..Len(issues) : headers[n] = h].notes
        recorded(h) ==
          /\ h + 1 < Len(lines)
          /\ ~MainMatch[Line(lines, h + 1)].matched
          /\ ~StartsWithSlash(Line(lines, h + 1))
    IN \A t \in note_from :
         NoteMatch[Line(lines, t[1])].matched =>
           LET nm == NoteMatch[Line(lines, t[1])]
               note == notes_of(t[2])[t[3]]
               R == {h \in H :
                       /\ h <= t[2] /\ recorded(h)
                       /\ PrimaryMatch[Line(lines, h)].file_path = nm.file_path
                       /\ PrimaryMatch[Line(lines, h)].line_number = nm.line_number}
           IN IF R = {} THEN note.code_context = None
              ELSE note.code_context =
                     Some(RStrip(Line(lines,
                            (CHOOSE h \in R : \A g \in R : g <= h) + 1)))

\* C30 witness: the note of /a:1 carries the code line that the diagnostic of
\* line 0 recorded for /a:1
C30_Witness ==
  /\ ParsedText /\ lines = <<LErr, LCode, LNote>>
  /\ Len(issues) = 1 /\ Len(issues[1].notes) = 1
  /\ issues[1].notes[1].type = "note"
  /\ issues[1].notes[1].code_context = Some(RStrip(LCode))
  /\ current_code_context = Put(EmptyDict, ContextKey(<<"/", "a">>, 1), RStrip(LCode))

\* C31: every issue of the list, the one that reports a failure included, has
\* a message that is not empty and the type "error" or "warning".
C31_MessageAndType ==
  \A n \in 1..Len(issues) :
    /\ issues[n].message # <<>>
    /\ issues[n].type \in {"error", "warning"}

\* C32: a step of the lookahead that appends a note made from a note line
\* passes one, two or three consecutive lines starting at the note line; if
\* the note has a suggested fix, the step passed three lines, the note's
\* fixit_indicator is the line after the note line and its suggested_fix is
\* the line after that one.
C32_NoteIteration ==
  [][(/\ Scanning /\ pc = "lookahead" /\ pc' = "lookahead"
      /\ Len(diagnostic'.notes) = Len(diagnostic.notes) + 1
      /\ diagnostic'.notes[Len(diagnostic'.notes)].type = "note") =>
       LET note == diagnostic'.notes[Len(diagnostic'.notes)]
       IN /\ j' - j \in 1..3
          /\ consumed' = consumed \cup {<<k, i>> : k \in j..(j' - 1)}
          /\ NoteMatch[Line(lines, j)].matched
          /\ note.suggested_fix # None =>
               /\ j' = j + 3
               /\ "fixit_indicator" \in DOMAIN note
               /\ note.fixit_indicator = RStrip(Line(lines, j + 1))
               /\ note.suggested_fix = Some(Strip(Line(lines, j + 2)))]_vars

\* C32 witness: the note of line 1 took the indicator of line 2 and the
\* replacement of line 3, and the lookahead passed the three lines in one step
C32_Witness ==
  /\ Scanning /\ pc = "lookahead" /\ lines = <<LAlt, LNote, LCaret, LCode>>
  /\ i = 0 /\ j = 4
  /\ Len(diagnostic.notes) = 1
  /\ diagnostic.notes[1].suggested_fix = Some(<<"x">>)
  /\ diagnostic.notes[1].fixit_indicator = <<" ", "^", "~">>
  /\ consumed = {<<1, 0>>, <<2, 0>>, <<3, 0>>}

\* C33: during the lookahead of a diagnostic, a character_range that has been
\* set keeps its value.
C33_CharacterRangeKept ==
  [][(/\ Scanning /\ pc = "lookahead" /\ pc' = "lookahead"
      /\ diagnostic.character_range # None) =>
       diagnostic'.character_range = diagnostic.character_range]_vars

\* C34: every line read that is a request object was answered, with jsonrpc
\* "2.0", the id of the request, and exactly one of result and error: error
\* -32600 when the method is missing or empty, -32601 when it is not a
\* registered method, -32000 when the handler raised, and a result otherwise.
C34_Dispatch ==
  \A k \in 1..Len(server.input) :
    (server.input[k].kind = "json" /\ server.input[k].value.t = "object") =>
      LET request == server.input[k].value
          missing == request.method = None \/ ~Truthy(request.method[1])
          registered == /\ ~missing /\ request.method[1].t = "string"
                        /\ request.method[1].v \in methods
          params == IF request.params = None THEN ParamsEmpty
                    ELSE request.params[1]
      IN /\ server.answers[k] # None
         /\ LET response == server.answers[k][1]
            IN /\ response.jsonrpc = "2.0"
               /\ response.id = request.id
               /\ (response.result = None) # (response.error = None)
               /\ missing => response.error = Some(-32600)
               /\ (~missing /\ ~registered) => response.error = Some(-32601)
               /\ registered =>
                    IF Dispatch(request.method[1].v, params).raised
                    THEN response.error = Some(-32000)
                    ELSE response.result # None

\* C35: every line read that is not empty was answered by one printed line
\* before the next was read, a line that is not JSON by error -32700 with id
\* null, and the server has not exited.
C35_RunLoop ==
  /\ server.pc # "exited"
  /\ \A k \in 1..Len(server.input) :
       /\ server.input[k].kind # "blank" => server.answers[k] # None
       /\ server.input[k].kind = "invalid" =>
            server.answers[k] = Some(ErrorResponse(None, -32700))
  /\ Len(server.output) =
       Cardinality({k \in 1..Len(server.input) : server.input[k].kind # "blank"})

\* C36: a tools/call or mcp.call_tool request that names a tool that is not
\* registered was answered by an error member with code -32601 and no result
\* member, and one whose tool function raises (get_project_diagnostics
\* without arguments) by an error member with code -32000 and no result
\* member.
C36_ToolErrors ==
  \A k \in 1..Len(server.input) :
    (/\ server.input[k].kind = "json" /\ server.input[k].value.t = "object"
     /\ server.input[k].value.method \in {Some(m) : m \in CallMethods}
     /\ server.input[k].value.params # None
     /\ server.input[k].value.params[1].t = "object"
     /\ server.input[k].value.params[1].name # None
     /\ server.input[k].value.params[1].name[1].t = "string") =>
      LET q == server.input[k].value.params[1]
          unregistered == q.name[1].v \notin tool_functions
          raises == /\ q.name[1].v = "get_project_diagnostics"
                    /\ q.parameters = None /\ q.arguments = None
      IN /\ unregistered =>
              /\ server.answers[k] # None
              /\ server.answers[k][1].error = Some(-32601)
              /\ server.answers[k][1].result = None
         /\ raises =>
              /\ server.answers[k] # None
              /\ server.answers[k][1].error = Some(-32000)
              /\ server.answers[k][1].result = None

====
